---- MODULE Spec2Model ----
(***************************************************************************)
(* A model of spikesorters/ironclust/ironclust.py: the IronClust adapter.  *)
(* The installation probe, the process-wide installation path, the version *)
(* query, the argfile serialisation and the per-invocation lifecycle       *)
(* (_setup_recording, _run, get_result_from_folder) over a small file      *)
(* system.                                                                 *)
(***************************************************************************)
EXTENDS Integers, Sequences, FiniteSets, TLC

VARIABLES
    ironclust_path,   \* IronClustSorter.ironclust_path (class attribute)
    installed,        \* IronClustSorter.installed (class attribute)
    environ,          \* os.environ["IRONCLUST_PATH"], or Unset
    markers,          \* absolute directories holding matlab/irc2.m
    versioned,        \* absolute directories holding matlab/version.txt
    probe_arg,        \* argument of the last direct check_if_installed call
    probe_ret,        \* its return value
    version_ret,      \* outcome of the last get_sorter_version call
    params,           \* self.params of the sorter whose argfile is built
    samplerate,       \* recording.get_sampling_frequency()
    txt,              \* the argfile text built by _run
    files,            \* files under the output folders: <<folder, dir, name>>
    inv,              \* per invocation: position, output folder, child outcome
    written,          \* per invocation: the files the adapter itself wrote
    accessed,         \* per invocation: the files it wrote, read or tested
    snapshot,         \* per invocation: the files of its folder when it began
    result            \* per invocation: outcome of get_result_from_folder

vars == <<ironclust_path, installed, environ, markers, versioned, probe_arg,
          probe_ret, version_ret, params, samplerate, txt, files, inv,
          written, accessed, snapshot, result>>

pathVars == <<ironclust_path, installed, environ>>
probeVars == <<probe_arg, probe_ret, version_ret>>
argVars == <<params, samplerate, txt>>
invVars == <<files, inv, written, accessed, snapshot, result>>

-----------------------------------------------------------------------------
(* Bounds of the model.                                                    *)

\* longest installation path string tried
MaxPathLen == 2

-----------------------------------------------------------------------------
(* Path strings.  A path is a sequence of characters; three characters are *)
(* told apart: the double quote, the NUL character, and a plain letter.    *)

QUOTE == "dquote"
NUL == "nul"
PathChars == {QUOTE, NUL, "a"}

\* Python's None, and a variable absent from os.environ: no path string
None == <<"None">>
Unset == <<"Unset">>

PathStrings == UNION {[1..n -> PathChars] : n \in 0..MaxPathLen}

HasNul(p) == \E i \in 1..Len(p) : p[i] = NUL

\* str.startswith('"')
StartsWithQuote(p) == Len(p) > 0 /\ p[1] = QUOTE

\* p[1:-1]
Slice1m1(p) == SubSeq(p, 2, Len(p) - 1)

\* Path(p).absolute(): a relative path is joined to the working directory
\* (none of the modelled characters is a separator); Path('') is the working
\* directory itself.
CWD == "/cwd"
Absolute(p) == <<CWD>> \o p

\* The directories that can exist: a name cannot hold NUL.
Dirs == {Absolute(p) : p \in {q \in PathStrings : ~HasNul(q)}}

\* (Path(d) / 'matlab' / 'irc2.m').is_file(); False for a name holding NUL
IsMarkerFile(d, fs) == d \in fs

\* lines 18-19: the slice is taken whenever the string starts with a quote
StripLeadingOnly(p) == IF StartsWithQuote(p) THEN Slice1m1(p) ELSE p

\* check_if_installed, lines 13-25, against the marker directories fs
check_if_installed(p, fs) ==
    IF p = None THEN FALSE
    ELSE IsMarkerFile(Absolute(StripLeadingOnly(p)), fs)

-----------------------------------------------------------------------------
(* The process-wide installation path.                                     *)

\* os.environ[...] = p raises ValueError for an embedded NUL
EnvironAccepts(p) == ~HasNul(p)

\* a setter that leaves the installed flag as it was
set_ironclust_path_staleFlag(p) ==
    /\ ironclust_path' = p
    /\ installed' = installed
    /\ environ' = IF EnvironAccepts(p) THEN p ELSE environ
    /\ UNCHANGED <<markers, versioned, probeVars, argVars, invVars>>

\* set_ironclust_path, lines 93-101
set_ironclust_path(p) ==
    /\ ironclust_path' = p
    /\ installed' = check_if_installed(p, markers)
    /\ environ' = IF EnvironAccepts(p) THEN p ELSE environ
    /\ UNCHANGED <<markers, versioned, probeVars, argVars, invVars>>

\* get_sorter_version, lines 81-91: os.environ["IRONCLUST_PATH"] raises
\* KeyError when the variable is unset; os.path.exists is False for a name
\* holding NUL.
get_sorter_version_ret ==
    IF environ = Unset THEN "KeyError"
    ELSE IF Absolute(environ) \in versioned THEN "version"
    ELSE "unknown"

get_sorter_version ==
    /\ version_ret' = get_sorter_version_ret
    /\ UNCHANGED <<pathVars, markers, versioned, probe_arg, probe_ret,
                   argVars, invVars>>

\* a direct call check_if_installed(p)
Probe(p) ==
    /\ probe_arg' = p
    /\ probe_ret' = check_if_installed(p, markers)
    /\ UNCHANGED <<pathVars, markers, versioned, version_ret, argVars, invVars>>

-----------------------------------------------------------------------------
(* The argfile text, lines 127-130.  A text is a sequence of atoms: an     *)
(* atom is a run of characters that the model does not look inside.        *)

\* longest string value of a parameter, in atoms
MaxStrLen == 1

NL == "\\n"
EQ == "="

\* two of the keys of _default_params, in the order of the dict
ParamKeys == <<"detect_sign", "prm_template_name">>

\* the atoms a string value is made of
StrAtoms == {"1", "True", "a", NL}
ArgStrings == UNION {[1..n -> StrAtoms] : n \in 0..MaxStrLen}

NumVal(n) == [t |-> "num", v |-> n]
BoolVal(b) == [t |-> "bool", v |-> b]
StrVal(s) == [t |-> "str", v |-> s]

ParamValues ==
    {NumVal(n) : n \in 0..1} \cup {BoolVal(b) : b \in BOOLEAN}
        \cup {StrVal(s) : s \in ArgStrings}

\* self.params: the defaults with the overrides, every key present
Mappings == [{ParamKeys[k] : k \in 1..Len(ParamKeys)} -> ParamValues]

\* the sampling frequencies of the recordings, floats r.0
Rates == {1, 2}

\* a formatter that writes booleans as 1 and 0
FormatValue_boolAsNumber(val) ==
    CASE val.t = "num" -> <<ToString(val.v)>>
      [] val.t = "bool" -> IF val.v THEN <<"1">> ELSE <<"0">>
      [] val.t = "str" -> val.v

\* '{}'.format(val0): str() of a number, of a boolean, of a string
FormatValue(val) ==
    CASE val.t = "num" -> <<ToString(val.v)>>
      [] val.t = "bool" -> IF val.v THEN <<"True">> ELSE <<"False">>
      [] val.t = "str" -> val.v

\* '{}'.format(samplerate) of a float
FormatRate(r) == <<ToString(r), ".0">>

\* '{}={}\n'.format(key0, val0)
FormatLine(key, val) == <<key, EQ>> \o FormatValue(val) \o <<NL>>

RECURSIVE JoinLines(_, _)
JoinLines(m, k) ==
    IF k > Len(ParamKeys) THEN <<>>
    ELSE FormatLine(ParamKeys[k], m[ParamKeys[k]]) \o JoinLines(m, k + 1)

\* lines 127-130: one line per entry, then the samplerate line
Argfile(m, r) == JoinLines(m, 1) \o <<"samplerate", EQ>> \o FormatRate(r) \o <<NL>>

\* the part of _run that builds the text, lines 127-130
build_argfile ==
    /\ txt = None
    /\ txt' = Argfile(params, samplerate)
    /\ UNCHANGED <<pathVars, markers, versioned, probeVars, params, samplerate,
                   invVars>>

-----------------------------------------------------------------------------
(* Invocations: _setup_recording, _run and get_result_from_folder on an    *)
(* output folder.  A file is named by its path, a sequence of components   *)
(* that starts with the output folder.                                     *)

\* invocations of the adapter in one process
NumInvocations == 2

Invocations == 1..NumInvocations
Folders == {"out1", "out2"}

\* sorter_name, line 32
sorter_name == "ironclust"

\* output_folder / 'ironclust_dataset', lines 108 and 113
DatasetDir(f) == <<f, "ironclust_dataset">>
\* a scratch directory relative to the working directory of the process
TmpDir_relative(f) == <<"tmp", "tmp">>
\* output_folder / 'tmp', lines 134 and 187
TmpDir(f) == <<f, "tmp">>

Under(f, path) == path[1] = f
FolderFiles(f, fs) == {path \in fs : Under(f, path)}

\* se.MdaRecordingExtractor.write_recording(save_path=dataset_dir), line 110,
\* with the three files the comment of line 109 names
WriteRecording(d) ==
    {Append(d, "raw.mda"), Append(d, "geom.csv"), Append(d, "params.json")}

\* dataset_dir / 'argfile.txt', line 131
ArgfilePath(f) == Append(DatasetDir(f), "argfile.txt")
\* tmpdir / 'run_ironclust.m', line 153
MatlabScriptPath(f) == Append(TmpDir(f), "run_ironclust.m")
\* output_folder / self.sorter_name, line 168
LauncherPath(f) == <<f, sorter_name>>
\* tmpdir / 'firings.mda', lines 176 and 189
ResultPath(f) == Append(TmpDir(f), "firings.mda")
\* a sidecar beside the subdirectories, not inside tmp
SampleratePath_top(f) == <<f, "samplerate.txt">>
\* tmpdir / 'samplerate.txt', lines 180 and 190
SampleratePath(f) == Append(TmpDir(f), "samplerate.txt")

\* ShellScript.write and ShellScript.start put the script text in the file
\* at the script_path the caller gave
ShellScriptFile(script_path) == {script_path}

\* before its first call an invocation has no folder and no exit code
Idle == [pc |-> "idle", folder |-> "none", retcode |-> "none", wrote |-> FALSE]

Ended(i) == inv[i].pc \in {"install_error", "failed", "completed"}
InFlight(i) == inv[i].pc # "idle" /\ result[i] = "none"
Free(f) == \A j \in Invocations : InFlight(j) => inv[j].folder # f

\* a setup that writes the recording before it probes the installation
_setup_recording_writeFirst(i, f) ==
    /\ inv[i].pc = "idle"
    /\ Free(f)
    /\ snapshot' = [snapshot EXCEPT ![i] = FolderFiles(f, files)]
    /\ files' = files \cup WriteRecording(DatasetDir(f))
    /\ written' = [written EXCEPT ![i] = @ \cup WriteRecording(DatasetDir(f))]
    /\ accessed' = [accessed EXCEPT ![i] = @ \cup WriteRecording(DatasetDir(f))]
    /\ inv' = [inv EXCEPT ![i].folder = f,
                          ![i].pc = IF check_if_installed(ironclust_path, markers)
                                    THEN "prepared" ELSE "install_error"]
    /\ UNCHANGED <<pathVars, markers, versioned, probeVars, argVars, result>>

\* _setup_recording, lines 103-110, on a folder no invocation is working in
_setup_recording(i, f) ==
    /\ inv[i].pc = "idle"
    /\ Free(f)
    /\ snapshot' = [snapshot EXCEPT ![i] = FolderFiles(f, files)]
    /\ IF ~check_if_installed(ironclust_path, markers)
       THEN /\ inv' = [inv EXCEPT ![i].pc = "install_error", ![i].folder = f]
            /\ UNCHANGED <<files, written, accessed>>
       ELSE /\ inv' = [inv EXCEPT ![i].pc = "prepared", ![i].folder = f]
            /\ files' = files \cup WriteRecording(DatasetDir(f))
            /\ written' = [written EXCEPT ![i] = @ \cup WriteRecording(DatasetDir(f))]
            /\ accessed' = [accessed EXCEPT ![i] = @ \cup WriteRecording(DatasetDir(f))]
    /\ UNCHANGED <<pathVars, markers, versioned, probeVars, argVars, result>>

\* what _run writes before it waits for the child, lines 131-169
RunStartFiles(f) ==
    {ArgfilePath(f)} \cup ShellScriptFile(MatlabScriptPath(f))
        \cup ShellScriptFile(LauncherPath(f))

\* _run up to shell_script.start(), lines 112-169
_run_start(i) ==
    /\ inv[i].pc = "prepared"
    /\ inv' = [inv EXCEPT ![i].pc = "invoked"]
    /\ files' = files \cup RunStartFiles(inv[i].folder)
    /\ written' = [written EXCEPT ![i] = @ \cup RunStartFiles(inv[i].folder)]
    /\ accessed' = [accessed EXCEPT ![i] = @ \cup RunStartFiles(inv[i].folder)]
    /\ UNCHANGED <<pathVars, markers, versioned, probeVars, argVars, snapshot,
                   result>>

\* the child process: p_ironclust writes '{tmpdir}/firings.mda' or fails to,
\* and matlab quits with 0 or 1 (lines 138-149)
child_exit(i, code, wrote) ==
    /\ inv[i].pc = "invoked"
    /\ inv' = [inv EXCEPT ![i].pc = "exited", ![i].retcode = code,
                          ![i].wrote = wrote]
    /\ files' = IF wrote THEN files \cup {ResultPath(inv[i].folder)} ELSE files
    /\ UNCHANGED <<pathVars, markers, versioned, probeVars, argVars, written,
                   accessed, snapshot, result>>

\* a _run that tests the result file and never the exit code
_run_finish_ignoresExitCode(i) ==
    /\ inv[i].pc = "exited"
    /\ accessed' = [accessed EXCEPT ![i] = @ \cup {ResultPath(inv[i].folder)}]
    /\ IF ResultPath(inv[i].folder) \notin files
       THEN /\ inv' = [inv EXCEPT ![i].pc = "failed"]
            /\ UNCHANGED <<files, written>>
       ELSE /\ inv' = [inv EXCEPT ![i].pc = "completed"]
            /\ files' = files \cup {SampleratePath(inv[i].folder)}
            /\ written' = [written EXCEPT ![i] = @ \cup {SampleratePath(inv[i].folder)}]
    /\ UNCHANGED <<pathVars, markers, versioned, probeVars, argVars, snapshot,
                   result>>

\* _run from shell_script.wait() on, lines 171-182
_run_finish(i) ==
    /\ inv[i].pc = "exited"
    /\ IF inv[i].retcode # 0
       THEN /\ inv' = [inv EXCEPT ![i].pc = "failed"]
            /\ UNCHANGED <<files, written, accessed>>
       ELSE /\ accessed' = [accessed EXCEPT ![i] = @ \cup {ResultPath(inv[i].folder)}]
            /\ IF ResultPath(inv[i].folder) \notin files
               THEN /\ inv' = [inv EXCEPT ![i].pc = "failed"]
                    /\ UNCHANGED <<files, written>>
               ELSE /\ inv' = [inv EXCEPT ![i].pc = "completed"]
                    /\ files' = files \cup {SampleratePath(inv[i].folder)}
                    /\ written' = [written EXCEPT ![i] = @ \cup {SampleratePath(inv[i].folder)}]
    /\ UNCHANGED <<pathVars, markers, versioned, probeVars, argVars, snapshot,
                   result>>

\* the firings file is removed after the run and before the result is loaded
delete_firings(i) ==
    /\ Ended(i)
    /\ result[i] = "none"
    /\ ResultPath(inv[i].folder) \in files
    /\ files' = files \ {ResultPath(inv[i].folder)}
    /\ UNCHANGED <<pathVars, markers, versioned, probeVars, argVars, inv,
                   written, accessed, snapshot, result>>

\* se.MdaSortingExtractor(file_path=result_fname, ...), line 194: the reader
\* of another package; one that reads at once fails on a missing file, one
\* that reads when first asked returns its object
MdaSortingExtractor(path, fs) ==
    IF path \in fs THEN {"sorting"} ELSE {"sorting", "NotFound"}

\* a loader that does not need the sidecar
get_result_outcomes_noSidecar(f, fs) == MdaSortingExtractor(ResultPath(f), fs)

\* get_result_from_folder, lines 184-196: open(samplerate_fname) raises
\* FileNotFoundError; the firings path goes to the reader unchecked
get_result_outcomes(f, fs) ==
    IF SampleratePath(f) \notin fs THEN {"NotFound"}
    ELSE MdaSortingExtractor(ResultPath(f), fs)

\* get_result_from_folder on the folder of an invocation that has ended
get_result_from_folder(i) ==
    /\ Ended(i)
    /\ result[i] = "none"
    /\ \E r \in get_result_outcomes(inv[i].folder, files) :
           result' = [result EXCEPT ![i] = r]
    /\ accessed' = [accessed EXCEPT ![i] = @ \cup
           (IF SampleratePath(inv[i].folder) \in files
            THEN {SampleratePath(inv[i].folder), ResultPath(inv[i].folder)}
            ELSE {SampleratePath(inv[i].folder)})]
    /\ UNCHANGED <<pathVars, markers, versioned, probeVars, argVars, files, inv,
                   written, snapshot>>

-----------------------------------------------------------------------------
(* Specifications.                                                         *)

NoInvocations ==
    /\ files = {}
    /\ inv = [i \in Invocations |-> Idle]
    /\ written = [i \in Invocations |-> {}]
    /\ accessed = [i \in Invocations |-> {}]
    /\ snapshot = [i \in Invocations |-> {}]
    /\ result = [i \in Invocations |-> "none"]

NoProbe == probe_arg = None /\ probe_ret = FALSE /\ version_ret = "none"

NoArgfile == params = None /\ samplerate = None /\ txt = None

\* class creation, lines 33-34: the path comes from the environment
ClassLoaded ==
    /\ environ \in {Unset} \cup {p \in PathStrings : EnvironAccepts(p)}
    /\ ironclust_path = (IF environ = Unset THEN None ELSE environ)
    /\ installed = check_if_installed(ironclust_path, markers)

\* the file systems: no installation, or one in any directory, with or
\* without its version file
Installations ==
    /\ markers \in {{}} \cup {{d} : d \in Dirs}
    /\ versioned \in SUBSET markers

\* The installation path, the probe and the version query.
InitPath == Installations /\ ClassLoaded /\ NoProbe /\ NoArgfile /\ NoInvocations

NextPath ==
    \/ \E p \in PathStrings : set_ironclust_path(p)
    \/ get_sorter_version

SpecPath == InitPath /\ [][NextPath]_vars

\* Direct calls of the probe.
NextProbe == \E p \in PathStrings \cup {None} : Probe(p)

SpecProbe == InitPath /\ [][NextProbe]_vars

\* The argfile of one sorter.
InitArg ==
    /\ markers = {} /\ versioned = {}
    /\ environ = Unset /\ ironclust_path = None /\ installed = FALSE
    /\ NoProbe /\ NoInvocations
    /\ params \in Mappings
    /\ samplerate \in Rates
    /\ txt = None

NextArg == build_argfile

SpecArg == InitArg /\ [][NextArg]_vars

\* The invocations, with one installation at the directory a.
InstallDir == Absolute(<<"a">>)
SetterInputs == {p \in PathStrings : Len(p) <= 1}

Init ==
    /\ markers = {InstallDir} /\ versioned = {}
    /\ environ \in {Unset, <<"a">>}
    /\ ironclust_path = (IF environ = Unset THEN None ELSE environ)
    /\ installed = check_if_installed(ironclust_path, markers)
    /\ NoProbe /\ NoArgfile /\ NoInvocations

Next ==
    \/ \E p \in SetterInputs : set_ironclust_path(p)
    \/ \E i \in Invocations, f \in Folders : _setup_recording(i, f)
    \/ \E i \in Invocations : _run_start(i)
    \/ \E i \in Invocations, code \in {0, 1}, wrote \in BOOLEAN :
           child_exit(i, code, wrote)
    \/ \E i \in Invocations : _run_finish(i)
    \/ \E i \in Invocations : delete_firings(i)
    \/ \E i \in Invocations : get_result_from_folder(i)

Spec == Init /\ [][Next]_vars

-----------------------------------------------------------------------------
(* Properties of the probe, the installation path and the version query.   *)

EnclosedInQuotes(p) == Len(p) >= 2 /\ p[1] = QUOTE /\ p[Len(p)] = QUOTE
StripEnclosingPair(p) == IF EnclosedInQuotes(p) THEN Slice1m1(p) ELSE p
Wrap(p) == <<QUOTE>> \o p \o <<QUOTE>>

\* C5: check_if_installed(p) is false for an absent path and otherwise true
\* exactly when the marker file exists under p with one pair of enclosing
\* quotes removed, if p has one; a string without an enclosing pair is probed
\* unchanged, and p wrapped in one pair of quotes gets the same answer as p.
C5_ProbeStripsOneEnclosingPair ==
    /\ probe_arg = None => probe_ret = FALSE
    /\ probe_arg # None =>
        /\ probe_ret = (Absolute(StripEnclosingPair(probe_arg)) \in markers)
        /\ check_if_installed(Wrap(probe_arg), markers) = probe_ret

\* C6 as stated: after every call set_ironclust_path(p) the class-wide
\* path, the environment variable and p are equal, and the installed flag is
\* the probe's result for p.
C6_SetterMakesAllEqual ==
    [][\A p \in PathStrings : set_ironclust_path(p) =>
          /\ ironclust_path' = p
          /\ environ' = p
          /\ installed' = check_if_installed(p, markers)]_vars

\* C6 amended: after every call set_ironclust_path(p) the class-wide path is
\* p and the installed flag is the probe's result for p; the environment
\* variable is p when the environment accepts p (no NUL character in it), and
\* keeps its earlier value when it does not.
C6_SetterUpdatesPathAndEnviron ==
    [][\A p \in PathStrings : set_ironclust_path(p) =>
          /\ ironclust_path' = p
          /\ installed' = check_if_installed(p, markers)
          /\ EnvironAccepts(p) => environ' = p
          /\ ~EnvironAccepts(p) => environ' = environ]_vars

\* C6 witness: a path holding NUL was set after another path: the class-wide
\* path is the new one, the environment variable still the earlier one
C6_Witness ==
    /\ ironclust_path # None /\ HasNul(ironclust_path)
    /\ environ # Unset /\ environ # ironclust_path
    /\ ~installed

\* C7: get_sorter_version returns 'unknown' whenever the version file is
\* absent, also when no installation path was ever configured.
C7_VersionUnknownWhenFileAbsent ==
    [][get_sorter_version =>
          ((environ = Unset \/ Absolute(environ) \notin versioned)
              => version_ret' = "unknown")]_vars

-----------------------------------------------------------------------------
(* Properties of the argfile text.                                         *)

Count(s, a) == Cardinality({i \in 1..Len(s) : s[i] = a})

SameValue(x, y) == x.t = y.t /\ x.v = y.v
SameMapping(m1, m2) == \A k \in DOMAIN m1 : SameValue(m1[k], m2[k])

\* a text that some mapping of the model serialises to is parsed back to
\* that mapping: no other mapping has the same text
ParsesBackTo(t, m, candidates) ==
    \A m2 \in candidates : Argfile(m2, samplerate) = t => SameMapping(m2, m)

\* C8 as stated: the text has one line per entry and the samplerate line,
\* and parsing it recovers the mapping, for all mappings of numbers, booleans
\* and strings.
C8_ArgfileRoundTrip ==
    txt # None =>
        /\ Count(txt, NL) = Len(ParamKeys) + 1
        /\ Count(txt, "samplerate") = 1
        /\ ParsesBackTo(txt, params, Mappings)

Digits == {"0", "1", "2"}
SpellsLiteral(s) ==
    \/ s \in {<<"True">>, <<"False">>}
    \/ Len(s) > 0 /\ \A i \in 1..Len(s) : s[i] \in Digits

\* string values without a newline that do not spell a number or a boolean
Plain(m) ==
    \A k \in DOMAIN m :
        m[k].t = "str" => Count(m[k].v, NL) = 0 /\ ~SpellsLiteral(m[k].v)

\* C8 amended: for mappings whose string values hold no newline and do not
\* spell a number or a boolean, the text has one line per entry and the
\* samplerate line, and parsing it recovers the mapping among such mappings.
C8_ArgfileRoundTripPlain ==
    (txt # None /\ Plain(params)) =>
        /\ Count(txt, NL) = Len(ParamKeys) + 1
        /\ Count(txt, "samplerate") = 1
        /\ ParsesBackTo(txt, params, {m \in Mappings : Plain(m)})

\* C8 witness: the text of a mapping with a number and the empty string of
\* the default prm_template_name
C8_Witness ==
    /\ txt # None
    /\ params["detect_sign"].t = "num"
    /\ params["prm_template_name"].t = "str"
    /\ params["prm_template_name"].v = <<>>

-----------------------------------------------------------------------------
(* Properties of the invocations.                                          *)

Failed(i) == inv[i].pc \in {"install_error", "failed"}

\* C1: when the probe is false for the configured path, _setup_recording
\* fails with the installation error and has written nothing: the files are
\* those of the moment before the call.
C1_InstallErrorBeforeAnyWrite ==
    [][\A i \in Invocations, f \in Folders :
          (_setup_recording(i, f) /\ ~check_if_installed(ironclust_path, markers)) =>
              /\ inv'[i].pc = "install_error"
              /\ files' = files
              /\ written'[i] = {}]_vars

\* C1 witness: an invocation ended with the installation error in a folder
\* that holds what it held before
C1_Witness ==
    \E i \in Invocations :
        /\ inv[i].pc = "install_error"
        /\ written[i] = {}
        /\ FolderFiles(inv[i].folder, files) = snapshot[i]

\* C2: _run returns and writes tmp/samplerate.txt exactly when the child
\* exited with code 0 and tmp/firings.mda exists after the child exited;
\* otherwise it raises, and writes no file.
C2_CompletedIffZeroExitAndResultFile ==
    [][\A i \in Invocations :
          _run_finish(i) =>
              LET ok == inv[i].retcode = 0 /\ ResultPath(inv[i].folder) \in files
              IN /\ inv'[i].pc = (IF ok THEN "completed" ELSE "failed")
                 /\ (SampleratePath(inv[i].folder) \in written'[i]) <=> ok
                 /\ ~ok => files' = files]_vars

\* C2 witness: one run completed with its sidecar, another failed although
\* its child exited with 0
C2_Witness ==
    \E i, j \in Invocations :
        /\ inv[i].pc = "completed"
        /\ SampleratePath(inv[i].folder) \in written[i]
        /\ inv[j].pc = "failed"
        /\ inv[j].retcode = 0

\* C3 as stated: after any invocation that ended in failure,
\* get_result_from_folder on its output folder returns no sorting result.
C3_FailedRunYieldsNoResult ==
    \A i \in Invocations : Failed(i) => result[i] # "sorting"

\* C3 amended: after an invocation that ended in failure in an output folder
\* that held no tmp/samplerate.txt when the invocation began (a fresh or
\* cleaned folder), get_result_from_folder on that folder returns no sorting
\* result.
C3_FailedRunInFreshFolderYieldsNoResult ==
    \A i \in Invocations :
        (Failed(i) /\ SampleratePath(inv[i].folder) \notin snapshot[i])
            => result[i] # "sorting"

\* C3 witness: a run failed although its child left a firings file, in a
\* folder that was empty; loading the result failed
C3_Witness ==
    \E i \in Invocations :
        /\ inv[i].pc = "failed"
        /\ snapshot[i] = {}
        /\ ResultPath(inv[i].folder) \in files
        /\ result[i] = "NotFound"

InDir(w, d) == Len(w) = Len(d) + 1 /\ SubSeq(w, 1, Len(d)) = d

\* C9 as stated: every file the adapter writes lies inside the dataset
\* subdirectory or the tmp subdirectory of the output folder.
C9_WritesOnlyInDatasetAndTmp ==
    \A i \in Invocations : \A w \in written[i] :
        InDir(w, DatasetDir(inv[i].folder)) \/ InDir(w, TmpDir(inv[i].folder))

\* C9 amended: every file the adapter writes lies inside the dataset
\* subdirectory or the tmp subdirectory of the output folder, but for the
\* shell launcher named after the sorter, which is written at the top level
\* of the output folder; nothing is written outside the output folder.
C9_WritesInSubdirsButLauncher ==
    \A i \in Invocations : \A w \in written[i] :
        \/ InDir(w, DatasetDir(inv[i].folder))
        \/ InDir(w, TmpDir(inv[i].folder))
        \/ w = <<inv[i].folder, sorter_name>>

\* C9 witness: a completed invocation wrote its six files and the sidecar
C9_Witness ==
    \E i \in Invocations :
        /\ inv[i].pc = "completed"
        /\ <<inv[i].folder, sorter_name>> \in written[i]
        /\ Cardinality(written[i]) = Cardinality(WriteRecording(<<>>)) + 4

\* C10: invocations in flight together work in distinct output folders, and
\* then a step of one changes no file outside its own folder, it reads and
\* writes only files of its own folder, and it ends as it does alone:
\* completed exactly when its own child exited with 0 and its firings file
\* was written by that child or lay in the folder before, with the files of
\* its folder being those of before, its own and its child's.
C10_DistinctFoldersDoNotInterfere ==
    [][\A i \in Invocations :
          (inv'[i].pc # inv[i].pc \/ result'[i] # result[i]) =>
              LET f == inv'[i].folder
                  child == IF inv'[i].wrote THEN {ResultPath(f)} ELSE {}
              IN /\ \A j \in Invocations \ {i} :
                        InFlight(j) => inv[j].folder # f
                 /\ files' \ FolderFiles(f, files') = files \ FolderFiles(f, files)
                 /\ \A w \in accessed'[i] : Under(f, w)
                 /\ (inv[i].pc = "exited") =>
                        /\ (inv'[i].pc = "completed") <=>
                               /\ inv[i].retcode = 0
                               /\ inv[i].wrote \/ ResultPath(f) \in snapshot[i]
                        /\ FolderFiles(f, files') =
                               snapshot[i] \cup written'[i] \cup child]_vars

\* C10 witness: two invocations in flight together in distinct folders, one
\* completed and one failed
C10_Witness ==
    \E i, j \in Invocations :
        /\ inv[i].pc = "completed" /\ result[i] = "none"
        /\ inv[j].pc = "failed" /\ result[j] = "none"
        /\ inv[i].folder # inv[j].folder

====
